---- MODULE Spec2Model ----
(***************************************************************************)
(* Model of the multi-provider layer of the InsightSnap backend:           *)
(*   - AIClient.call (services/ai/aiClient.js) with its two providers,     *)
(*     GroqClient.call (services/ai/groqClient.js) and OllamaClient.call   *)
(*     (services/ai/ollamaClient.js);                                      *)
(*   - ScrapeCreatorsService.searchPosts (services/scrapeCreatorsService). *)
(* An error message is a sequence of fragments, built the way the source's *)
(* template literals build it; "contains" is contiguous sub-sequence.      *)
(***************************************************************************)
EXTENDS Integers, Sequences, FiniteSets, TLC

VARIABLES
    groqApiKey,     \* GroqClient.apiKey is set (process.env.GROQ_API_KEY)
    aiPc,           \* position of AIClient.call: idle, groq, ollama, done
    aiPrompt,       \* prompt argument of AIClient.call
    aiOptions,      \* options argument of AIClient.call
    aiForced,       \* the pending OllamaClient.call is the one of line 24
    groqCalls,      \* invocations of GroqClient.call
    groqHttp,       \* axios.post calls issued by GroqClient.call
    ollamaCalls,    \* invocations of OllamaClient.call
    ollamaHttp,     \* axios.post calls issued by OllamaClient.call
    ollamaArgs,     \* <<prompt, options>> of every OllamaClient.call
    groqTried,      \* GroqClient.isAvailable() was evaluated by this call
    groqOutcome,    \* what GroqClient.call returned or threw, once it settled
    ollamaOutcome,  \* what OllamaClient.call returned or threw, once it settled
    aiResult,       \* what AIClient.call gave its caller
    aiLog,          \* log lines written by AIClient.call, in order
    aiStatus,       \* what the last AIClient.getStatus() reported
    scApiKey,       \* ScrapeCreatorsService.apiKey is set (SCRAPECREATORS_API_KEY)
    spPc,           \* position of searchPosts: idle, waiting (line 54), done
    spArgs,         \* arguments of searchPosts
    spTasks,        \* per requested platform: the promise of lines 40 to 52
    spRequests,     \* axios.get calls issued, in order
    spResult,       \* what searchPosts gave its caller
    spLog,          \* warnings and errors logged by the service, in order
    spOrder,        \* the tasks in the order their axios.get settled, where recorded
    fmtPc,          \* a formatter call: ready (argument chosen), done
    fmtInput,       \* the formatter chosen and the raw item passed to it
    fmtOutput,      \* the record the formatter returned
    adPc,           \* a call of an adapter or of its extractor: ready, done
    adInput,        \* the function called and what axios gave it
    adOutput,       \* what the function returned, threw and logged
    smtpEnv,        \* which of SMTP_HOST, SMTP_USER, SMTP_PASS are set
    supPc,          \* the POST /contact handler: idle, sending (line 144), done
    supBody,        \* req.body of the request
    supResponse,    \* status and body sent with res
    supMails,       \* transport.sendMail calls
    supLog,         \* log lines written by the handler
    shPc,           \* position of start-railway.sh: idle, start, probe, models,
                    \* node, sleep, wait, exited
    shOllama,       \* the ollama serve process: none, running, killed
    shWaitCount,    \* WAIT_COUNT
    shReady,        \* a probe of /api/tags succeeded
    shModels,       \* the model step: unchecked, present, pulled, pullfailed
    shNode,         \* the node server.js process: none, running, exited, killed
    shNodeCode,     \* exit code of the node process once it has exited
    shCleaned,      \* cleanup has run
    shSignalled,    \* SIGTERM or SIGINT was trapped
    shExitCode      \* exit code of the script once it has exited

searchVars == <<scApiKey, spPc, spArgs, spTasks, spRequests, spResult, spLog, spOrder>>

formatVars == <<fmtPc, fmtInput, fmtOutput>>

adapterVars == <<adPc, adInput, adOutput>>

supportVars == <<smtpEnv, supPc, supBody, supResponse, supMails, supLog>>

startVars == <<shPc, shOllama, shWaitCount, shReady, shModels, shNode, shNodeCode,
               shCleaned, shSignalled, shExitCode>>

vars == <<groqApiKey, aiPc, aiPrompt, aiOptions, aiForced, groqCalls, groqHttp,
          ollamaCalls, ollamaHttp, ollamaArgs, groqTried, groqOutcome, ollamaOutcome,
          aiResult, aiLog, aiStatus, scApiKey, spPc, spArgs, spTasks, spRequests,
          spResult, spLog, spOrder, fmtPc, fmtInput, fmtOutput, adPc, adInput,
          adOutput, smtpEnv, supPc, supBody, supResponse, supMails, supLog, shPc,
          shOllama, shWaitCount, shReady, shModels, shNode, shNodeCode, shCleaned,
          shSignalled, shExitCode>>

aiVars == <<groqApiKey, aiPc, aiPrompt, aiOptions, aiForced, groqCalls, groqHttp,
            ollamaCalls, ollamaHttp, ollamaArgs, groqTried, groqOutcome, ollamaOutcome,
            aiResult, aiLog, aiStatus>>

\* everything but the AI client
notAiVars == <<searchVars, formatVars, adapterVars, supportVars, startVars>>

\* everything but searchPosts
notSearchVars == <<aiVars, formatVars, adapterVars, supportVars, startVars>>
----------------------------------------------------------------------------
(* Messages *)

NoError == <<>>

\* String.prototype.includes on a message: s occurs in m
Contains(m, s) ==
    \E i \in 0..(Len(m) - Len(s)) : SubSeq(m, i + 1, i + Len(s)) = s

\* a || b on strings: the empty string is falsy
OrElse(a, b) == IF a = "" THEN b ELSE a

----------------------------------------------------------------------------
(* Inputs of AIClient.call *)

Prompts == {"p1", "p2"}

\* options.temperature: 0 stands for an absent (or zero) temperature
Temperatures == {0, 7}

AIOptions == [forceOllama : BOOLEAN, temperature : Temperatures]

\* generated texts; "" is the empty text
Texts == {"", "t1", "t2"}

\* outcome of axios.post as the clients see it: a network error code, or a
\* status with a body
NetCodes == {"ECONNREFUSED", "ETIMEDOUT", "ECONNABORTED"}

GroqBodies ==
    [kind : {"nodata", "nochoices", "emptychoices", "nomessage", "nocontent"},
     content : {""}, error : {"", "rate limit"}]
    \cup [kind : {"content"}, content : Texts, error : {""}]

GroqResponses ==
    [code : NetCodes, status : {0}, body : {[kind |-> "nodata", content |-> "", error |-> ""]}]
    \cup [code : {"none"}, status : {200, 429, 503}, body : GroqBodies]

OllamaBodies ==
    [kind : {"nodata"}, response : {""}, error : {""}]
    \cup [kind : {"data"}, response : Texts, error : {"", "model not found", "timeout"}]

OllamaResponses ==
    [code : NetCodes, status : {0}, body : {[kind |-> "nodata", response |-> "", error |-> ""]}]
    \cup [code : {"none"}, status : {200, 404, 500}, body : OllamaBodies]

Ok(text) == [ok |-> TRUE, text |-> text, message |-> NoError]
Thrown(msg) == [ok |-> FALSE, text |-> "", message |-> msg]

\* a provider call that has not settled
NoOutcome == [ok |-> FALSE, text |-> "", message |-> NoError]

\* message of the error axios rejects with
AxiosMessage(resp, timeoutMs) ==
    CASE resp.code = "ECONNREFUSED" -> <<"connect ECONNREFUSED">>
      [] resp.code = "ETIMEDOUT" -> <<"connect ETIMEDOUT">>
      [] resp.code = "ECONNABORTED" -> <<"timeout", " of ", ToString(timeoutMs), "ms exceeded">>
      [] OTHER -> <<"Request failed with status code ", ToString(resp.status)>>

\* axios rejects: a network error, or a status validateStatus refuses
AxiosRejects(resp) == resp.code # "none" \/ resp.status >= 500

----------------------------------------------------------------------------
(* GroqClient *)

GroqTimeout == 30000

GroqClientIsAvailable(apiKey) == apiKey

\* the try block of GroqClient.call, axios having resolved with resp
GroqClientTry(resp) ==
    IF resp.status >= 400
    THEN Thrown(<<"Groq API error: ", ToString(resp.status), " - ",
                  OrElse(resp.body.error, "Unknown error")>>)
    ELSE IF resp.body.kind \in {"nodata", "nochoices", "emptychoices"}
    THEN Thrown(<<"Invalid response from Groq API">>)
    ELSE IF resp.body.kind = "nomessage"
    THEN Thrown(<<"Cannot read properties of undefined (reading 'content')">>)
    ELSE IF resp.body.kind = "nocontent"
    THEN Thrown(<<"Cannot read properties of undefined (reading 'length')">>)
    ELSE Ok(resp.body.content)

\* the catch block of GroqClient.call
GroqClientCatch(resp) ==
    IF resp.code \in {"ECONNREFUSED", "ETIMEDOUT"}
    THEN Thrown(AxiosMessage(resp, GroqTimeout))
    ELSE IF resp.code = "none" /\ resp.status >= 500
    THEN Thrown(<<"Groq API error: ">>
                \o (IF resp.body.error # "" THEN <<resp.body.error>>
                    ELSE AxiosMessage(resp, GroqTimeout)))
    ELSE IF AxiosRejects(resp)
    THEN Thrown(AxiosMessage(resp, GroqTimeout))
    ELSE GroqClientTry(resp)

\* number of axios.post calls one GroqClient.call issues (none past line 26)
GroqClientPosts(apiKey) == IF apiKey THEN 1 ELSE 0

GroqClientCall(apiKey, resp) ==
    IF ~apiKey THEN Thrown(<<"GROQ_API_KEY not configured">>)
    ELSE GroqClientCatch(resp)

----------------------------------------------------------------------------
(* OllamaClient *)

OllamaTimeout == 120000

OllamaBaseUrl == "http://localhost:11434"

OllamaClientIsAvailable == TRUE

\* the try block of OllamaClient.call, axios having resolved with resp
OllamaClientTry(resp) ==
    IF resp.status >= 400
    THEN Thrown(<<"Ollama API error: ", ToString(resp.status), " - ",
                  OrElse(resp.body.error, "Unknown error")>>)
    ELSE IF resp.body.kind = "nodata" \/ resp.body.response = ""
    THEN Thrown(<<"Invalid response from Ollama API">>)
    ELSE Ok(resp.body.response)

\* the error the try block ends with: axios's, or one thrown at lines 45, 50
OllamaClientError(resp) ==
    IF AxiosRejects(resp) THEN Thrown(AxiosMessage(resp, OllamaTimeout))
    ELSE OllamaClientTry(resp)

\* the catch block of OllamaClient.call
OllamaClientCall(resp) ==
    LET r == OllamaClientError(resp) IN
    IF r.ok THEN r
    ELSE IF resp.code = "ECONNREFUSED"
    THEN Thrown(<<"Ollama service unavailable at ", OllamaBaseUrl,
                  ". Please check if Ollama is running.">>)
    ELSE IF resp.code = "ETIMEDOUT" \/ Contains(r.message, <<"timeout">>)
    THEN Thrown(<<"AI model request timed out. The model may be overloaded or not loaded.">>)
    ELSE IF resp.code = "none" /\ resp.status >= 500
    THEN Thrown(<<"AI model error: ">>
                \o (IF resp.body.error # "" THEN <<resp.body.error>> ELSE r.message))
    ELSE r

----------------------------------------------------------------------------
(* AIClient.call *)

NoResult == [kind |-> "none", text |-> "", message |-> NoError]
Returned(text) == [kind |-> "returned", text |-> text, message |-> NoError]
Raised(msg) == [kind |-> "raised", text |-> "", message |-> msg]

LogLine(level, msg) == [level |-> level, message |-> msg]

\* no getStatus() yet
NoStatus == [asked |-> FALSE, groq |-> FALSE, ollama |-> FALSE]

AIInit ==
    /\ groqApiKey \in BOOLEAN
    /\ aiPc = "idle"
    /\ aiPrompt = ""
    /\ aiOptions = [forceOllama |-> FALSE, temperature |-> 0]
    /\ aiForced = FALSE
    /\ groqCalls = 0
    /\ groqHttp = 0
    /\ ollamaCalls = 0
    /\ ollamaHttp = 0
    /\ ollamaArgs = <<>>
    /\ groqTried = FALSE
    /\ groqOutcome = NoOutcome
    /\ ollamaOutcome = NoOutcome
    /\ aiResult = NoResult
    /\ aiLog = <<>>
    /\ aiStatus = NoStatus

\* options.forceOllama, the test of line 22
ForceOllama_Never(options) == FALSE

ForceOllama_Always(options) == TRUE

ForceOllama(options) == options.forceOllama

\* OllamaClient.call(prompt, options) is entered: it issues its axios.post
InvokeOllama(prompt, options) ==
    /\ ollamaCalls' = ollamaCalls + 1
    /\ ollamaHttp' = ollamaHttp + 1
    /\ ollamaArgs' = Append(ollamaArgs, <<prompt, options>>)
    /\ aiPc' = "ollama"

\* a coordinator that treats the missing credential as fatal
PrimaryUnavailable_Raises(prompt, options) ==
    /\ aiResult' = Raised(<<"GROQ_API_KEY not configured">>)
    /\ aiPc' = "done"
    /\ UNCHANGED <<ollamaCalls, ollamaHttp, ollamaArgs, aiLog>>

\* lines 35 to 41: the primary is not configured
PrimaryUnavailable(prompt, options) ==
    /\ aiLog' = Append(aiLog, LogLine("info", <<"Groq not available, using Ollama">>))
    /\ InvokeOllama(prompt, options)
    /\ UNCHANGED aiResult

\* AIClient.call(prompt, options) up to its first await
AIClientCall(prompt, options) ==
    /\ aiPc = "idle"
    /\ aiPrompt' = prompt
    /\ aiOptions' = options
    /\ IF ForceOllama(options)
       THEN /\ aiLog' = Append(aiLog, LogLine("info", <<"Using Ollama (forced)">>))
            /\ aiForced' = TRUE
            /\ InvokeOllama(prompt, options)
            /\ UNCHANGED <<groqCalls, groqHttp, groqTried, aiResult>>
       ELSE /\ groqTried' = TRUE
            /\ aiForced' = FALSE
            /\ IF GroqClientIsAvailable(groqApiKey)
               THEN /\ groqCalls' = groqCalls + 1
                    /\ groqHttp' = groqHttp + GroqClientPosts(groqApiKey)
                    /\ aiPc' = "groq"
                    /\ UNCHANGED <<ollamaCalls, ollamaHttp, ollamaArgs, aiLog, aiResult>>
               ELSE /\ PrimaryUnavailable(prompt, options)
                    /\ UNCHANGED <<groqCalls, groqHttp>>
    /\ UNCHANGED <<groqApiKey, groqOutcome, ollamaOutcome, aiStatus>>
    /\ UNCHANGED notAiVars

\* a coordinator whose line 30 lacks its return
PrimarySucceeded_FallsThrough(r) ==
    /\ InvokeOllama(aiPrompt, aiOptions)
    /\ UNCHANGED <<aiResult, aiLog>>

\* line 30: GroqClient.call returned r.text
PrimarySucceeded(r) ==
    /\ aiResult' = Returned(r.text)
    /\ aiPc' = "done"
    /\ UNCHANGED <<ollamaCalls, ollamaHttp, ollamaArgs, aiLog>>

\* a coordinator that lets the primary's error reach the caller
PrimaryFailed_Raises(r) ==
    /\ aiResult' = Raised(r.message)
    /\ aiPc' = "done"
    /\ UNCHANGED <<ollamaCalls, ollamaHttp, ollamaArgs, aiLog>>

\* a coordinator that awaits the primary again after it failed
PrimaryFailed_AwaitsAgain(r) ==
    /\ aiPc' = "groq"
    /\ UNCHANGED <<ollamaCalls, ollamaHttp, ollamaArgs, aiLog, aiResult>>

\* lines 31 to 41: GroqClient.call threw r.message
PrimaryFailed(r) ==
    /\ aiLog' = Append(aiLog,
           LogLine("warn", <<"Groq API failed, falling back to Ollama: ">> \o r.message))
    /\ InvokeOllama(aiPrompt, aiOptions)
    /\ UNCHANGED aiResult

\* the awaited GroqClient.call settles
GroqSettles(resp) ==
    /\ aiPc = "groq"
    /\ LET r == GroqClientCall(groqApiKey, resp) IN
       /\ groqOutcome' = r
       /\ IF r.ok THEN PrimarySucceeded(r) ELSE PrimaryFailed(r)
    /\ UNCHANGED <<groqApiKey, aiPrompt, aiOptions, aiForced, groqCalls, groqHttp,
                   groqTried, ollamaOutcome, aiStatus>>
    /\ UNCHANGED notAiVars

\* what the catch block of lines 42 to 45 throws: groqError is bound only
\* inside the catch block of line 31, so evaluating the template literal of
\* line 43 throws a ReferenceError before line 44 is reached
BothFailedError(ollamaMessage) == <<"groqError is not defined">>

\* the awaited (or, when forced, returned) OllamaClient.call settles
OllamaSettles(resp) ==
    /\ aiPc = "ollama"
    /\ LET r == OllamaClientCall(resp) IN
       /\ ollamaOutcome' = r
       /\ aiResult' = IF r.ok THEN Returned(r.text)
                      ELSE IF aiForced THEN Raised(r.message)
                      ELSE Raised(BothFailedError(r.message))
    /\ aiPc' = "done"
    /\ UNCHANGED <<groqApiKey, aiPrompt, aiOptions, aiForced, groqCalls, groqHttp,
                   ollamaCalls, ollamaHttp, ollamaArgs, groqTried, groqOutcome, aiLog,
                   aiStatus>>
    /\ UNCHANGED notAiVars

AINext ==
    \/ \E p \in Prompts, o \in AIOptions : AIClientCall(p, o)
    \/ \E resp \in GroqResponses : GroqSettles(resp)
    \/ \E resp \in OllamaResponses : OllamaSettles(resp)

\* the two isAvailable() calls of getStatus, as it reports them
Availability ==
    [asked |-> TRUE, groq |-> GroqClientIsAvailable(groqApiKey),
     ollama |-> OllamaClientIsAvailable]

\* an isAvailable that asks the Ollama server whether it is up
GetStatus_Pings ==
    /\ ollamaHttp < 2
    /\ aiStatus' = Availability
    /\ ollamaHttp' = ollamaHttp + 1
    /\ UNCHANGED <<groqApiKey, aiPc, aiPrompt, aiOptions, aiForced, groqCalls, groqHttp,
                   ollamaCalls, ollamaArgs, groqTried, groqOutcome, ollamaOutcome,
                   aiResult, aiLog>>
    /\ UNCHANGED notAiVars

\* AIClient.getStatus(), lines 52 to 65, at any moment: GroqClient.isAvailable
\* and OllamaClient.isAvailable only read a static field or return true
GetStatus ==
    /\ aiStatus' = Availability
    /\ UNCHANGED <<groqApiKey, aiPc, aiPrompt, aiOptions, aiForced, groqCalls, groqHttp,
                   ollamaCalls, ollamaHttp, ollamaArgs, groqTried, groqOutcome,
                   ollamaOutcome, aiResult, aiLog>>
    /\ UNCHANGED notAiVars

StatusNext ==
    \/ AINext
    \/ GetStatus

\* each awaited provider call settles: GroqClient.call by its 30 s axios
\* timeout at the latest, OllamaClient.call by its 120 s one
ProviderCallsSettle ==
    /\ WF_vars(\E resp \in GroqResponses : GroqSettles(resp))
    /\ WF_vars(\E resp \in OllamaResponses : OllamaSettles(resp))

----------------------------------------------------------------------------
(* JSON values of a provider payload: tagged, so that Array.isArray and      *)
(* property access can be modelled                                          *)

JUndefined == [t |-> "undefined"]
JNull == [t |-> "null"]
JString == [t |-> "string"]
JList(items) == [t |-> "list", v |-> items]
JObject(fields) == [t |-> "object", v |-> fields]

\* Array.isArray(j)
IsArray(j) == j.t = "list"

\* j.key, and j?.key: undefined unless j is an object that has the key
Get(j, key) ==
    IF j.t = "object" THEN (IF key \in DOMAIN j.v THEN j.v[key] ELSE JUndefined)
    ELSE JUndefined

\* !j for the payloads modelled here
Falsy(j) == j.t \in {"undefined", "null"}

\* extractPostsFromResponse(data, platform): the list found, and whether the
\* warning of line 251 is logged
ExtractTopKeys == <<"data", "posts", "results", "videos", "items">>

ExtractNestedKeys == <<"posts", "results", "videos", "items">>

RECURSIVE FirstArray(_, _, _)
FirstArray(j, keys, i) ==
    IF i > Len(keys) THEN JUndefined
    ELSE IF IsArray(Get(j, keys[i])) THEN Get(j, keys[i])
    ELSE FirstArray(j, keys, i + 1)

\* an extractor that passes over the empty lists
ExtractPostsFromResponse_SkipsEmpty(data) ==
    LET RECURSIVE FirstFilled(_, _, _)
        FirstFilled(j, keys, i) ==
            IF i > Len(keys) THEN JUndefined
            ELSE IF IsArray(Get(j, keys[i])) /\ Get(j, keys[i]).v # <<>>
            THEN Get(j, keys[i])
            ELSE FirstFilled(j, keys, i + 1)
    IN IF Falsy(data) THEN [posts |-> <<>>, warned |-> FALSE]
       ELSE IF IsArray(data) THEN [posts |-> data.v, warned |-> FALSE]
       ELSE IF IsArray(FirstFilled(data, ExtractTopKeys, 1))
       THEN [posts |-> FirstFilled(data, ExtractTopKeys, 1).v, warned |-> FALSE]
       ELSE IF IsArray(FirstFilled(Get(data, "data"), ExtractNestedKeys, 1))
       THEN [posts |-> FirstFilled(Get(data, "data"), ExtractNestedKeys, 1).v,
             warned |-> FALSE]
       ELSE [posts |-> <<>>, warned |-> TRUE]

ExtractPostsFromResponse(data) ==
    IF Falsy(data) THEN [posts |-> <<>>, warned |-> FALSE]
    ELSE IF IsArray(data) THEN [posts |-> data.v, warned |-> FALSE]
    ELSE IF IsArray(FirstArray(data, ExtractTopKeys, 1))
    THEN [posts |-> FirstArray(data, ExtractTopKeys, 1).v, warned |-> FALSE]
    ELSE IF IsArray(FirstArray(Get(data, "data"), ExtractNestedKeys, 1))
    THEN [posts |-> FirstArray(Get(data, "data"), ExtractNestedKeys, 1).v, warned |-> FALSE]
    ELSE [posts |-> <<>>, warned |-> TRUE]

----------------------------------------------------------------------------
(* Raw provider items and their formatting                                  *)
(* A raw item is a record holding the fields the provider sent; an absent   *)
(* field reads as undefined.  Numeric fields hold integers, text fields     *)
(* strings, so that x || y is: x unless x is absent, 0 or ''.               *)

\* a null element of a provider's list
NullItem == [null |-> TRUE]

IsNullItem(post) == DOMAIN post = {"null"}

Num(post, f) == IF f \in DOMAIN post THEN post[f] ELSE 0

Str(post, f) == IF f \in DOMAIN post THEN post[f] ELSE ""

\* post.f1 || post.f2 || ... || default, on numeric fields
RECURSIVE FirstNum(_, _, _, _)
FirstNum(post, fields, i, default) ==
    IF i > Len(fields) THEN default
    ELSE IF Num(post, fields[i]) # 0 THEN Num(post, fields[i])
    ELSE FirstNum(post, fields, i + 1, default)

\* post.f1 || post.f2 || ... || default, on text fields
RECURSIVE FirstStr(_, _, _, _)
FirstStr(post, fields, i, default) ==
    IF i > Len(fields) THEN default
    ELSE IF Str(post, fields[i]) # "" THEN Str(post, fields[i])
    ELSE FirstStr(post, fields, i + 1, default)

\* Date.now() and new Date().toISOString() at the time of the call
NowMillis == "1700000000000"

NowIso == "2023-11-14T22:13:20.000Z"

\* Math.random().toString(36).substr(2, 9)
RandomToken == "k3j9x2a1b"

\* `${prefix}_${Date.now()}_${random}`
GeneratedId(prefix) == <<prefix, "_", NowMillis, "_", RandomToken>>

\* a formatter that truncates where the code rounds
RoundHundredth_Truncates(views, rest) == (views \div 100) + rest

\* Math.round(views * 0.01 + rest) for integers: halves round up
RoundHundredth(views, rest) == ((views + 50) \div 100) + rest

\* a formatter that reads the first alias of each metric only
RedditEngagement_FirstAliasOnly(post) == Num(post, "score") + Num(post, "num_comments")

\* (post.score || post.ups || 0) + (post.num_comments || post.comments || 0)
RedditEngagement(post) ==
    FirstNum(post, <<"score", "ups">>, 1, 0)
    + FirstNum(post, <<"num_comments", "comments">>, 1, 0)

FormatRedditPost(post) ==
    LET engagement == RedditEngagement(post)
        id == FirstStr(post, <<"id", "name">>, 1, "")
    IN [id |-> IF id # "" THEN <<id>> ELSE GeneratedId("reddit"),
        content |-> FirstStr(post, <<"title", "text", "selftext", "body">>, 1, ""),
        source |-> IF Str(post, "subreddit") # "" THEN <<"r/", post.subreddit>>
                   ELSE <<FirstStr(post, <<"subreddit_name_prefixed">>, 1, "Reddit")>>,
        engagement |-> engagement,
        timestamp |-> IF Num(post, "created_utc") # 0
                      THEN <<"iso", ToString(post.created_utc * 1000)>>
                      ELSE <<FirstStr(post, <<"created", "timestamp">>, 1, NowIso)>>,
        url |-> IF FirstStr(post, <<"url", "permalink">>, 1, "") # ""
                THEN <<FirstStr(post, <<"url", "permalink">>, 1, "")>>
                ELSE IF Str(post, "id") # ""
                THEN <<"https://reddit.com/comments/", post.id>>
                ELSE <<"#">>,
        author |-> FirstStr(post, <<"author", "author_name">>, 1, "Unknown")]

FormatYouTubePost(video) ==
    LET views == FirstNum(video, <<"viewCount", "views", "view_count">>, 1, 0)
        likes == FirstNum(video, <<"likeCount", "likes", "like_count">>, 1, 0)
        comments == FirstNum(video, <<"commentCount", "comments", "comment_count">>, 1, 0)
        videoId == FirstStr(video, <<"id", "videoId", "video_id">>, 1, "")
        channel == <<"channelTitle", "channel", "channel_title", "author">>
    IN [id |-> IF videoId # "" THEN <<videoId>> ELSE GeneratedId("youtube"),
        content |-> FirstStr(video, <<"title", "snippet.title", "description">>, 1, ""),
        source |-> <<FirstStr(video, channel, 1, "YouTube")>>,
        engagement |-> RoundHundredth(views, likes + comments),
        timestamp |-> <<FirstStr(video, <<"publishedAt", "published_at", "upload_date">>,
                                 1, NowIso)>>,
        url |-> IF Str(video, "url") # "" THEN <<video.url>>
                ELSE IF videoId # "" THEN <<"https://youtube.com/watch?v=", videoId>>
                ELSE <<"#">>,
        author |-> FirstStr(video, channel, 1, "Unknown")]

\* a formatter that knows only the aliases likes, replies, comments, reposts, shares
ThreadsEngagement_FewerAliases(post) ==
    FirstNum(post, <<"likes">>, 1, 0)
    + FirstNum(post, <<"replies", "comments">>, 1, 0)
    + FirstNum(post, <<"reposts", "shares">>, 1, 0)

\* (likes || like_count || 0) + (replies || comments || reply_count || 0)
\*   + (reposts || repost_count || shares || 0)
ThreadsEngagement(post) ==
    FirstNum(post, <<"likes", "like_count">>, 1, 0)
    + FirstNum(post, <<"replies", "comments", "reply_count">>, 1, 0)
    + FirstNum(post, <<"reposts", "repost_count", "shares">>, 1, 0)

FormatThreadsPost(post) ==
    LET engagement == ThreadsEngagement(post)
        id == FirstStr(post, <<"id", "post_id">>, 1, "")
    IN [id |-> IF id # "" THEN <<id>> ELSE GeneratedId("threads"),
        content |-> FirstStr(post, <<"text", "content", "caption", "body">>, 1, ""),
        source |-> IF Str(post, "username") # "" THEN <<"@", post.username>>
                   ELSE <<FirstStr(post, <<"author">>, 1, "Threads")>>,
        engagement |-> engagement,
        timestamp |-> <<FirstStr(post, <<"created_at", "timestamp", "posted_at">>, 1, NowIso)>>,
        url |-> <<FirstStr(post, <<"url", "permalink", "post_url">>, 1, "#")>>,
        author |-> FirstStr(post, <<"username", "author", "user">>, 1, "Unknown")]

----------------------------------------------------------------------------
(* ScrapeCreatorsService: inputs *)

\* longest platform list requested, longest item list a provider returns
MaxPlatforms == 2

MaxItems == 2

\* "#notastring" stands for an element of platforms that is not a string
PlatformNames ==
    {"reddit", "youtube", "threads", "YouTube", "x", "twitter", "linkedin", "tiktok",
     "#notastring"}

SupportedAdapters == {"reddit", "youtube", "threads"}

SeqsUpTo(S, n) == UNION {[1..k -> S] : k \in 0..n}

PlatformLists == SeqsUpTo(PlatformNames, MaxPlatforms)

Queries == {"tla"}

Languages == {"en"}

TimeFilters == {"week"}

DefaultMaxResults == 50

\* the k-th item a provider has for the query
RawItem(adapter, k) ==
    CASE adapter = "reddit" ->
           (CASE k = 1 -> [name |-> "r1", score |-> -4, comments |-> 1]
              [] k = 2 -> [id |-> "r2", score |-> 10, num_comments |-> 5, title |-> "a",
                           subreddit |-> "tla"]
              [] OTHER -> [id |-> "r3", ups |-> k, title |-> "c"])
      [] adapter = "youtube" ->
           (CASE k = 1 -> [videoId |-> "y1", viewCount |-> 250, title |-> "b"]
              [] k = 2 -> [id |-> "y2", views |-> 1000, likes |-> 4, commentCount |-> 1]
              [] OTHER -> [id |-> "y3", likes |-> k])
      [] adapter = "threads" ->
           (CASE k = 1 -> [username |-> "u", like_count |-> 1]
              [] k = 2 -> [id |-> "t2", likes |-> 10, replies |-> 3, shares |-> 2]
              [] OTHER -> [id |-> "t3", likes |-> k, reply_count |-> 12])

\* a provider returns the first n items it has, n <= MaxItems
FirstItems(adapter, n) == [k \in 1..n |-> RawItem(adapter, k)]

ItemLists(adapter) == {FirstItems(adapter, n) : n \in 0..MaxItems}

\* what axios.get rejects with: a network error or a status outside 2xx
SearchFailures ==
    [code : {"ECONNREFUSED", "ECONNABORTED"}, status : {0}, body : {FALSE}]
    \cup {[code |-> "none", status |-> 404, body |-> TRUE],
          [code |-> "none", status |-> 500, body |-> FALSE]}

\* shapes of a 200 payload that carry the item list
ListShapes ==
    {"bare", "data", "posts", "results", "videos", "items",
     "data.posts", "data.results", "data.videos", "data.items"}

\* payloads that carry no usable list
MalformedShapes == {"null", "unknownkey", "notalist", "nullitem"}

\* the payload shapes the providers of searchPosts answer with
SearchShapes == {"bare", "posts", "data.videos", "null", "unknownkey", "nullitem"}

Payload(shape, items) ==
    CASE shape = "bare" -> JList(items)
      [] shape \in {"data", "posts", "results", "videos", "items"} ->
           JObject(shape :> JList(items))
      [] shape = "data.posts" -> JObject("data" :> JObject("posts" :> JList(items)))
      [] shape = "data.results" -> JObject("data" :> JObject("results" :> JList(items)))
      [] shape = "data.videos" -> JObject("data" :> JObject("videos" :> JList(items)))
      [] shape = "data.items" -> JObject("data" :> JObject("items" :> JList(items)))
      [] shape = "null" -> JNull
      [] shape = "unknownkey" -> JObject("error" :> JString)
      [] shape = "notalist" -> JObject("posts" :> JString)
      [] shape = "nullitem" -> JList(Append(items, NullItem))

----------------------------------------------------------------------------
(* ScrapeCreatorsService: adapters *)

\* platform.toLowerCase()
ToLowerCase(platform) == IF platform = "YouTube" THEN "youtube" ELSE platform

\* the case of the switch of searchPlatform
Adapter_CaseSensitive(platform) ==
    CASE platform \in SupportedAdapters -> platform
      [] platform \in {"x", "twitter", "linkedin"} -> "skipped"
      [] platform = "#notastring" -> "throws"
      [] OTHER -> "unknown"

\* a switch whose default case searches Reddit
Adapter_DefaultsToReddit(platform) ==
    CASE platform = "#notastring" -> "throws"
      [] ToLowerCase(platform) \in SupportedAdapters -> ToLowerCase(platform)
      [] ToLowerCase(platform) \in {"x", "twitter", "linkedin"} -> "skipped"
      [] OTHER -> "reddit"

\* a switch whose x, twitter and linkedin cases search as well
Adapter_SkipsNothing(platform) ==
    CASE platform = "#notastring" -> "throws"
      [] ToLowerCase(platform) \in SupportedAdapters -> ToLowerCase(platform)
      [] ToLowerCase(platform) \in {"x", "twitter", "linkedin"} -> "threads"
      [] OTHER -> "unknown"

Adapter(platform) ==
    CASE platform = "#notastring" -> "throws"
      [] ToLowerCase(platform) \in SupportedAdapters -> ToLowerCase(platform)
      [] ToLowerCase(platform) \in {"x", "twitter", "linkedin"} -> "skipped"
      [] OTHER -> "unknown"

FormatPost(adapter, post) ==
    CASE adapter = "reddit" -> FormatRedditPost(post)
      [] adapter = "youtube" -> FormatYouTubePost(post)
      [] adapter = "threads" -> FormatThreadsPost(post)

FormatAll(adapter, posts) == [k \in 1..Len(posts) |-> FormatPost(adapter, posts[k])]

\* logApiError(platform, error)
LogApiError(adapter, kind) == LogLine("error", <<adapter, kind>>)

\* searchReddit, searchYouTube, searchThreads once axios.get resolved with
\* data: lines 118 to 135
SearchAdapterOk(adapter, data) ==
    LET posts == ExtractPostsFromResponse(data).posts IN
    IF Len(posts) = 0
    THEN [threw |-> FALSE, posts |-> <<>>, log |-> <<LogLine("warn", <<adapter, "No posts found">>)>>]
    ELSE IF \E k \in 1..Len(posts) : IsNullItem(posts[k])
    THEN [threw |-> FALSE, posts |-> <<>>, log |-> <<LogApiError(adapter, "search error")>>]
    ELSE [threw |-> FALSE, posts |-> FormatAll(adapter, posts), log |-> <<>>]

\* an adapter without its try and catch
SearchAdapterFailed_Rethrows(adapter, failure) ==
    [threw |-> TRUE, posts |-> <<>>, log |-> <<>>]

\* the same once axios.get rejected: lines 132 to 135.  error.response.data
\* is a parsed body or '' (axios never leaves it undefined), so the
\* JSON.stringify(...).substring of logApiError does not throw
SearchAdapterFailed(adapter, failure) ==
    [threw |-> FALSE, posts |-> <<>>,
     log |-> <<LogApiError(adapter,
                 IF failure.code = "none" THEN "API error"
                 ELSE IF failure.code \in {"ECONNREFUSED", "ETIMEDOUT"}
                 THEN "API connection error"
                 ELSE "search error")>>]

----------------------------------------------------------------------------
(* ScrapeCreatorsService.searchPosts *)

NoPosts == [kind |-> "none", posts |-> <<>>, message |-> NoError]
ReturnedPosts(posts) == [kind |-> "returned", posts |-> posts, message |-> NoError]
RaisedError(msg) == [kind |-> "raised", posts |-> <<>>, message |-> msg]

NoArgs == [query |-> "", platforms |-> <<>>, language |-> "", timeFilter |-> "",
           maxResults |-> 0]

SearchIdle ==
    /\ spPc = "idle"
    /\ spArgs = NoArgs
    /\ spTasks = <<>>
    /\ spRequests = <<>>
    /\ spResult = NoPosts
    /\ spLog = <<>>
    /\ spOrder = <<>>

SearchInit ==
    /\ scApiKey \in BOOLEAN
    /\ SearchIdle

AIIdle ==
    /\ aiPc = "idle"
    /\ aiPrompt = ""
    /\ aiOptions = [forceOllama |-> FALSE, temperature |-> 0]
    /\ aiForced = FALSE
    /\ groqCalls = 0
    /\ groqHttp = 0
    /\ ollamaCalls = 0
    /\ ollamaHttp = 0
    /\ ollamaArgs = <<>>
    /\ groqTried = FALSE
    /\ groqOutcome = NoOutcome
    /\ ollamaOutcome = NoOutcome
    /\ aiResult = NoResult
    /\ aiLog = <<>>
    /\ aiStatus = NoStatus

\* the test of line 31 left out
ApiKeyConfigured_Unchecked(apiKey) == TRUE

\* the test of line 31 turned around
ApiKeyConfigured_Inverted(apiKey) == ~apiKey

\* !this.apiKey is false, the test of line 31
ApiKeyConfigured(apiKey) == apiKey

\* a task of lines 40 to 52: pending on its axios.get, or settled with the
\* posts it resolved to.  received is what the provider sent: failed when the
\* call failed or the payload was malformed, else the raw items it carried
Pending == [state |-> "pending", posts |-> <<>>, log |-> <<>>,
            received |-> [failed |-> FALSE, items |-> <<>>]]

SettledTask(posts, log, failed, items) ==
    [state |-> "settled", posts |-> posts, log |-> log,
     received |-> [failed |-> failed, items |-> items]]

\* the callback of line 40 up to its first await: searchPlatform dispatches
LaunchTask(platform) ==
    CASE Adapter(platform) \in SupportedAdapters -> Pending
      [] Adapter(platform) = "skipped" ->
           SettledTask(<<>>, <<LogLine("warn", <<platform, "search endpoint not available">>)>>,
                       FALSE, <<>>)
      [] Adapter(platform) = "unknown" ->
           SettledTask(<<>>, <<LogLine("warn", <<"Unknown platform: ", platform>>)>>,
                       FALSE, <<>>)
      [] Adapter(platform) = "throws" ->
           SettledTask(<<>>, <<LogLine("error", <<"Error searching ", platform>>)>>,
                       FALSE, <<>>)

\* adapters that call their endpoint a second time
Requests_Twice(platforms, query, maxResults, i) ==
    LET Request(k) == [task |-> k, endpoint |-> Adapter(platforms[k]), query |-> query,
                       limit |-> maxResults]
        RECURSIVE From(_)
        From(k) == IF k > Len(platforms) THEN <<>>
                   ELSE (IF Adapter(platforms[k]) \in SupportedAdapters
                         THEN <<Request(k), Request(k)>> ELSE <<>>) \o From(k + 1)
    IN From(i)

\* the axios.get calls issued while the tasks are launched, in order
RECURSIVE Requests(_, _, _, _)
Requests(platforms, query, maxResults, i) ==
    IF i > Len(platforms) THEN <<>>
    ELSE (IF Adapter(platforms[i]) \in SupportedAdapters
          THEN <<[task |-> i, endpoint |-> Adapter(platforms[i]), query |-> query,
                  limit |-> maxResults]>>
          ELSE <<>>)
         \o Requests(platforms, query, maxResults, i + 1)

\* lines 44 to 47: { ...post, platform: platform }
TagPlatform(posts, platform) ==
    [k \in 1..Len(posts) |-> [f \in DOMAIN posts[k] \cup {"platform"} |->
                                 IF f = "platform" THEN platform ELSE posts[k][f]]]

\* a Promise.all that rejects: the catch of line 63 returns []
GatherResults_AbortOnFailure(tasks) ==
    LET RECURSIVE Gather(_)
        Gather(i) == IF i > Len(tasks) THEN <<>> ELSE tasks[i].posts \o Gather(i + 1)
    IN IF \E i \in 1..Len(tasks) : tasks[i].received.failed THEN <<>> ELSE Gather(1)

\* callbacks that push their posts to allPosts as they complete
GatherResults_CompletionOrder(tasks) ==
    LET RECURSIVE Gather(_)
        Gather(k) == IF k > Len(spOrder) THEN <<>>
                     ELSE tasks[spOrder[k]].posts \o Gather(k + 1)
    IN Gather(1)

\* a gathering that leaves a marker for every platform whose call failed
GatherResults_MarksFailures(tasks) ==
    LET Marker == [engagement |-> 0, error |-> "unavailable"]
        RECURSIVE Gather(_)
        Gather(i) == IF i > Len(tasks) THEN <<>>
                     ELSE (IF tasks[i].received.failed THEN <<Marker>> ELSE tasks[i].posts)
                          \o Gather(i + 1)
    IN Gather(1)

\* a gathering that keeps the posts only when the language asked for is English
GatherResults_OnlyEnglish(tasks) ==
    LET RECURSIVE Gather(_)
        Gather(i) == IF i > Len(tasks) THEN <<>> ELSE tasks[i].posts \o Gather(i + 1)
    IN IF spArgs.language = "en" THEN Gather(1) ELSE <<>>

\* lines 54 and 55: the posts of all tasks, in the order of platforms
GatherResults(tasks) ==
    LET RECURSIVE Gather(_)
        Gather(i) == IF i > Len(tasks) THEN <<>> ELSE tasks[i].posts \o Gather(i + 1)
    IN Gather(1)

\* allPosts.sort left out
SortByEngagement_Unsorted(posts) == posts

\* line 61: allPosts.sort((a, b) => (b.engagement || 0) - (a.engagement || 0)),
\* a stable sort
SortByEngagement(posts) ==
    LET RECURSIVE Insert(_, _)
        Insert(sorted, post) ==
            IF sorted = <<>> THEN <<post>>
            ELSE IF sorted[Len(sorted)].engagement >= post.engagement
            THEN Append(sorted, post)
            ELSE Append(Insert(SubSeq(sorted, 1, Len(sorted) - 1), post),
                        sorted[Len(sorted)])
        RECURSIVE Sort(_)
        Sort(n) == IF n = 0 THEN <<>> ELSE Insert(Sort(n - 1), posts[n])
    IN Sort(Len(posts))

\* a Promise.all that gives up on the first failed task
AllSettled_FailFast(tasks) ==
    \/ \A i \in DOMAIN tasks : tasks[i].state = "settled"
    \/ \E i \in DOMAIN tasks : tasks[i].state = "settled" /\ tasks[i].received.failed

\* line 54: Promise.all resolves when every promise has, and none rejects
\* (the catch of line 48 turns every rejection into [])
AllSettled(tasks) == \A i \in DOMAIN tasks : tasks[i].state = "settled"

\* searchPosts(query, platforms, language, timeFilter, maxResults) up to the
\* await of line 54
SearchPosts(query, platforms, language, timeFilter, maxResults) ==
    /\ spPc = "idle"
    /\ spArgs' = [query |-> query, platforms |-> platforms, language |-> language,
                  timeFilter |-> timeFilter, maxResults |-> maxResults]
    /\ IF ~ApiKeyConfigured(scApiKey)
       THEN /\ spLog' = Append(spLog, LogLine("error", <<"ScrapeCreators API key not configured">>))
            /\ spResult' = RaisedError(<<"ScrapeCreators API key not configured">>)
            /\ spPc' = "done"
            /\ UNCHANGED <<spTasks, spRequests>>
       ELSE /\ spTasks' = [i \in 1..Len(platforms) |-> LaunchTask(platforms[i])]
            /\ spRequests' = spRequests \o Requests(platforms, query, maxResults, 1)
            /\ spPc' = "waiting"
            /\ UNCHANGED <<spResult, spLog>>
    /\ UNCHANGED <<scApiKey, spOrder>>
    /\ UNCHANGED notSearchVars

\* the task of platform i resumes with its adapter's result
SettleTask(i, result, failed, items) ==
    /\ spTasks' = [spTasks EXCEPT ![i] =
          IF result.threw
          THEN SettledTask(<<>>, <<LogLine("error", <<"Error searching ", spArgs.platforms[i]>>)>>,
                           failed, items)
          ELSE SettledTask(TagPlatform(result.posts, spArgs.platforms[i]), result.log,
                           failed, items)]
    /\ UNCHANGED <<scApiKey, spPc, spArgs, spRequests, spResult, spLog>>
    /\ UNCHANGED notSearchVars

\* the axios.get of task i is rejected
ProviderFailure(i, failure) ==
    /\ spPc = "waiting"
    /\ i \in DOMAIN spTasks
    /\ spTasks[i].state = "pending"
    /\ SettleTask(i, SearchAdapterFailed(Adapter(spArgs.platforms[i]), failure), TRUE, <<>>)

ProviderFails(i, failure) == ProviderFailure(i, failure) /\ UNCHANGED spOrder

\* the same step, its place among the completions recorded
ProviderFailsInTurn(i, failure) ==
    ProviderFailure(i, failure) /\ spOrder' = Append(spOrder, i)

\* the axios.get of task i resolves with a payload
ProviderResponse(i, shape, n) ==
    /\ spPc = "waiting"
    /\ i \in DOMAIN spTasks
    /\ spTasks[i].state = "pending"
    /\ shape \in MalformedShapes => n = 0
    /\ LET adapter == Adapter(spArgs.platforms[i])
           items == FirstItems(adapter, n)
       IN SettleTask(i, SearchAdapterOk(adapter, Payload(shape, items)),
                     shape \in MalformedShapes, items)

ProviderResponds(i, shape, n) == ProviderResponse(i, shape, n) /\ UNCHANGED spOrder

\* the same step, its place among the completions recorded
ProviderRespondsInTurn(i, shape, n) ==
    ProviderResponse(i, shape, n) /\ spOrder' = Append(spOrder, i)

\* Promise.all resolves once every task has settled: lines 54 to 61
SearchReturns ==
    /\ spPc = "waiting"
    /\ AllSettled(spTasks)
    /\ spResult' = ReturnedPosts(SortByEngagement(GatherResults(spTasks)))
    /\ spPc' = "done"
    /\ UNCHANGED <<scApiKey, spArgs, spTasks, spRequests, spLog, spOrder>>
    /\ UNCHANGED notSearchVars

SearchNext ==
    \/ \E q \in Queries, ps \in PlatformLists, l \in Languages, tf \in TimeFilters :
          SearchPosts(q, ps, l, tf, DefaultMaxResults)
    \/ \E i \in 1..MaxPlatforms, f \in SearchFailures : ProviderFails(i, f)
    \/ \E i \in 1..MaxPlatforms, shape \in SearchShapes, n \in 0..MaxItems :
          ProviderResponds(i, shape, n)
    \/ SearchReturns

\* searches of the platforms that have an adapter, each provider answering
\* with a list or timing out, the order of the completions recorded
AdapterLists == {ps \in PlatformLists : \A i \in DOMAIN ps : ps[i] \in SupportedAdapters}

Timeout == [code |-> "ECONNABORTED", status |-> 0, body |-> FALSE]

OrderNext ==
    \/ \E q \in Queries, ps \in AdapterLists, l \in Languages, tf \in TimeFilters :
          SearchPosts(q, ps, l, tf, DefaultMaxResults)
    \/ \E i \in 1..MaxPlatforms : ProviderFailsInTurn(i, Timeout)
    \/ \E i \in 1..MaxPlatforms, n \in 0..MaxItems : ProviderRespondsInTurn(i, "bare", n)
    \/ SearchReturns

\* searches of the platforms that have an adapter, in every language and
\* time window
AllLanguages == {"en", "es"}

AllTimeFilters == {"week", "year"}

FiltersNext ==
    \/ \E q \in Queries, ps \in AdapterLists, l \in AllLanguages, tf \in AllTimeFilters :
          SearchPosts(q, ps, l, tf, DefaultMaxResults)
    \/ \E i \in 1..MaxPlatforms : ProviderFails(i, Timeout)
    \/ \E i \in 1..MaxPlatforms, n \in 0..MaxItems : ProviderResponds(i, "bare", n)
    \/ SearchReturns

----------------------------------------------------------------------------
(* The formatters called on their own *)

NoInput == [adapter |-> "", post |-> <<>>]

FormatIdle ==
    /\ fmtPc = "idle"
    /\ fmtInput = NoInput
    /\ fmtOutput = <<>>

\* the objects that carry any subset of the fields, with values drawn from values
Objects(fields, values) == UNION {[present -> values] : present \in SUBSET fields}

\* one optional numeric field
Metric(field, values) == Objects({field}, values)

\* raw Reddit items: every alias of both metrics absent, zero or set, scores
\* negative too (a downvoted post), with or without the descriptive fields
RedditScores == {-4, 0, 5, 10}

RedditCommentCounts == {0, 5, 10}

RedditTexts ==
    {<<>>, [id |-> "r2", title |-> "a title", subreddit |-> "tla", author |-> "ann"]}

RedditPosts ==
    {s @@ c @@ t : s \in Objects({"score", "ups"}, RedditScores),
                   c \in Objects({"num_comments", "comments"}, RedditCommentCounts),
                   t \in RedditTexts}

\* raw YouTube items: every alias of the three metrics absent or set, the
\* first alias zero too, view counts on both sides of a half
YouTubeTexts == {<<>>, [videoId |-> "y1", title |-> "a video", channel |-> "chan"]}

YouTubeVideos ==
    {v1 @@ v2 @@ v3 @@ l1 @@ l2 @@ l3 @@ c1 @@ c2 @@ c3 @@ t :
        v1 \in Metric("viewCount", {0, 250, 10000}),
        v2 \in Metric("views", {149, 10000}),
        v3 \in Metric("view_count", {150}),
        l1 \in Metric("likeCount", {0, 50}),
        l2 \in Metric("likes", {50}),
        l3 \in Metric("like_count", {7}),
        c1 \in Metric("commentCount", {0, 10}),
        c2 \in Metric("comments", {10}),
        c3 \in Metric("comment_count", {3}),
        t \in YouTubeTexts}

\* raw Threads items: every alias of the three metrics absent or set, the
\* first alias zero too
ThreadsTexts == {<<>>, [post_id |-> "t1", text |-> "a thread", username |-> "u"]}

ThreadsPosts ==
    {l1 @@ l2 @@ r1 @@ r2 @@ r3 @@ s1 @@ s2 @@ s3 @@ t :
        l1 \in Metric("likes", {0, 10}),
        l2 \in Metric("like_count", {1}),
        r1 \in Metric("replies", {0, 3}),
        r2 \in Metric("comments", {5}),
        r3 \in Metric("reply_count", {12}),
        s1 \in Metric("reposts", {0, 2}),
        s2 \in Metric("repost_count", {4}),
        s3 \in Metric("shares", {6}),
        t \in ThreadsTexts}

FormatInputs ==
    [adapter : {"reddit"}, post : RedditPosts]
    \cup [adapter : {"youtube"}, post : YouTubeVideos]
    \cup [adapter : {"threads"}, post : ThreadsPosts]

\* a caller holds a raw item and is about to hand it to its formatter
FormatInit ==
    /\ fmtPc = "ready"
    /\ fmtInput \in FormatInputs
    /\ fmtOutput = <<>>

FormatCall(adapter, record) ==
    /\ fmtPc = "ready"
    /\ fmtInput.adapter = adapter
    /\ fmtPc' = "done"
    /\ fmtOutput' = record
    /\ UNCHANGED fmtInput
    /\ UNCHANGED <<aiVars, searchVars, adapterVars, supportVars, startVars>>

CallFormatRedditPost == FormatCall("reddit", FormatRedditPost(fmtInput.post))

CallFormatYouTubePost == FormatCall("youtube", FormatYouTubePost(fmtInput.post))

CallFormatThreadsPost == FormatCall("threads", FormatThreadsPost(fmtInput.post))

FormatNext ==
    \/ CallFormatRedditPost
    \/ CallFormatYouTubePost
    \/ CallFormatThreadsPost

----------------------------------------------------------------------------
(* An adapter, or extractPostsFromResponse, called on its own *)

NoFailure == [code |-> "none", status |-> 0, body |-> FALSE]

NoCall == [fn |-> "", adapter |-> "", rejected |-> FALSE, failure |-> NoFailure,
           data |-> JUndefined]

NoOutput == [threw |-> FALSE, posts |-> <<>>, log |-> <<>>]

AdapterIdle ==
    /\ adPc = "idle"
    /\ adInput = NoCall
    /\ adOutput = NoOutput

\* an item that tells which list of the payload it was in
Item(key, nested) == [id |-> key, title |-> IF nested THEN "nested" ELSE "top"]

Marked == [t |-> "marked"]

Labelled(fields, nested) ==
    [k \in DOMAIN fields |->
        IF fields[k] = Marked THEN JList(<<Item(k, nested)>>) ELSE fields[k]]

\* payloads for extractPostsFromResponse: null, undefined, a string, a bare
\* list, and the objects whose keys posts, results, videos, items are each
\* absent, a string, an empty list or a list, and whose data is absent, null,
\* a string, an empty list, a list or an object of such lists
ExtractData ==
    {JNull, JString, JList(<<>>), JList(<<Item("data", FALSE)>>)}
    \cup {JObject(Labelled(o, TRUE)) : o \in Objects({"posts", "results", "videos", "items"},
                                                    {Marked})}

ExtractPayloads ==
    {JNull, JUndefined, JString, JList(<<>>), JList(<<Item("bare", FALSE)>>)}
    \cup {JObject(Labelled(o, FALSE) @@ d) :
             o \in Objects({"posts", "results", "videos", "items"},
                           {JString, JList(<<>>), Marked}),
             d \in Objects({"data"}, ExtractData)}

\* what axios.get rejects with: no response (connection refused, the axios
\* timeout, a socket timeout, DNS), or a response with a 4xx or 5xx status
AdapterFailures ==
    [code : {"ECONNREFUSED", "ECONNABORTED", "ETIMEDOUT", "ENOTFOUND"},
     status : {0}, body : {FALSE}]
    \cup [code : {"none"}, status : {400, 404, 429, 500, 503}, body : BOOLEAN]

AdapterCalls ==
    [fn : {"extract"}, adapter : {""}, rejected : {FALSE}, failure : {NoFailure},
     data : ExtractPayloads]
    \cup [fn : {"search"}, adapter : SupportedAdapters, rejected : {TRUE},
          failure : AdapterFailures, data : {JUndefined}]
    \cup UNION {[fn : {"search"}, adapter : {a}, rejected : {FALSE}, failure : {NoFailure},
                 data : {Payload(shape, FirstItems(a, n)) :
                            shape \in ListShapes \cup MalformedShapes, n \in 0..MaxItems}] :
                a \in SupportedAdapters}

AdapterInit ==
    /\ adPc = "ready"
    /\ adInput \in AdapterCalls
    /\ adOutput = NoOutput

AdapterReturns(fn, output) ==
    /\ adPc = "ready"
    /\ adInput.fn = fn
    /\ adPc' = "done"
    /\ adOutput' = output
    /\ UNCHANGED adInput
    /\ UNCHANGED <<aiVars, searchVars, formatVars, supportVars, startVars>>

\* extractPostsFromResponse(data, platform)
CallExtractPostsFromResponse ==
    LET r == ExtractPostsFromResponse(adInput.data)
    IN AdapterReturns("extract",
          [threw |-> FALSE, posts |-> r.posts,
           log |-> IF r.warned THEN <<LogLine("warn", <<"Could not extract posts">>)>>
                   ELSE <<>>])

\* searchReddit, searchYouTube or searchThreads, from the moment axios.get settles
CallSearchAdapter ==
    AdapterReturns("search",
        IF adInput.rejected THEN SearchAdapterFailed(adInput.adapter, adInput.failure)
        ELSE SearchAdapterOk(adInput.adapter, adInput.data))

AdapterNext ==
    \/ CallExtractPostsFromResponse
    \/ CallSearchAdapter

----------------------------------------------------------------------------
(* routes/support.js: POST /contact *)

NoResponse == [status |-> 0, success |-> FALSE, error |-> ""]

SupportIdle ==
    /\ supPc = "idle"
    /\ supBody = [name |-> "", email |-> "", type |-> "", message |-> ""]
    /\ supResponse = NoResponse
    /\ supMails = <<>>
    /\ supLog = <<>>

\* req.body: a field that is absent or empty is ''
ContactBodies ==
    [name : {"", "Ann"}, email : {"", "ann@example.org"}, type : {"", "issue", "feedback"},
     message : {"", "It broke"}]

SmtpEnvs == [host : BOOLEAN, user : BOOLEAN, pass : BOOLEAN]

SupportInit ==
    /\ smtpEnv \in SmtpEnvs
    /\ SupportIdle

\* a getTransport that builds the transport whatever is configured
GetTransport_Unchecked(env) == TRUE

\* getTransport() returns a transport, not null
GetTransport(env) == env.host /\ env.user /\ env.pass

\* the handler up to its first await, or to the response it sends before
PostContact(body) ==
    /\ supPc = "idle"
    /\ supBody' = body
    /\ IF body.name = "" \/ body.email = "" \/ body.type = "" \/ body.message = ""
       THEN /\ supResponse' = [status |-> 400, success |-> FALSE,
                               error |-> "Missing required fields"]
            /\ supPc' = "done"
            /\ UNCHANGED supMails
       ELSE IF ~GetTransport(smtpEnv)
       THEN /\ supResponse' = [status |-> 500, success |-> FALSE,
                               error |-> "Email not configured"]
            /\ supPc' = "done"
            /\ UNCHANGED supMails
       ELSE /\ supMails' = Append(supMails, "pending")
            /\ supPc' = "sending"
            /\ UNCHANGED supResponse
    /\ UNCHANGED <<smtpEnv, supLog>>
    /\ UNCHANGED <<aiVars, searchVars, formatVars, adapterVars, startVars>>

\* the awaited transport.sendMail settles: lines 154 to 170
SendMailSettles(sent) ==
    /\ supPc = "sending"
    /\ supMails' = [supMails EXCEPT ![Len(supMails)] = IF sent THEN "sent" ELSE "rejected"]
    /\ supResponse' = IF sent THEN [status |-> 200, success |-> TRUE, error |-> ""]
                       ELSE [status |-> 500, success |-> FALSE,
                             error |-> "Failed to send message"]
    /\ supLog' = Append(supLog, IF sent THEN LogLine("info", <<"Support message sent">>)
                                ELSE LogLine("error", <<"Failed to send support message">>))
    /\ supPc' = "done"
    /\ UNCHANGED <<smtpEnv, supBody>>
    /\ UNCHANGED <<aiVars, searchVars, formatVars, adapterVars, startVars>>

SupportNext ==
    \/ \E body \in ContactBodies : PostContact(body)
    \/ \E sent \in BOOLEAN : SendMailSettles(sent)

----------------------------------------------------------------------------
(* start-railway.sh *)

MAX_WAIT == 60

\* exit codes of node server.js
NodeExitCodes == {0, 1, 2, 137}

ScriptState(pc) ==
    /\ shPc = pc
    /\ shOllama = "none"
    /\ shWaitCount = 0
    /\ shReady = FALSE
    /\ shModels = "unchecked"
    /\ shNode = "none"
    /\ shNodeCode = 0
    /\ shCleaned = FALSE
    /\ shSignalled = FALSE
    /\ shExitCode = 0

\* the script is not run
StartIdle == ScriptState("idle")

\* the script is about to run
StartInit == ScriptState("start")

StartFrame == UNCHANGED <<aiVars, searchVars, formatVars, adapterVars, supportVars>>

\* lines 3 to 21: ollama serve &, the trap, the counters
StartOllama ==
    /\ shPc = "start"
    /\ shOllama' = "running"
    /\ shPc' = "probe"
    /\ UNCHANGED <<shWaitCount, shReady, shModels, shNode, shNodeCode, shCleaned,
                   shSignalled, shExitCode>>
    /\ StartFrame

\* one turn of the loop of lines 23 to 30, and lines 32 to 34 after the last
ProbeOllama(up) ==
    /\ shPc = "probe"
    /\ IF up
       THEN /\ shReady' = TRUE
            /\ shPc' = "models"
            /\ UNCHANGED shWaitCount
       ELSE /\ shWaitCount' = shWaitCount + 1
            /\ shPc' = IF shWaitCount + 1 < MAX_WAIT THEN "probe" ELSE "models"
            /\ UNCHANGED shReady
    /\ UNCHANGED <<shOllama, shModels, shNode, shNodeCode, shCleaned, shSignalled,
                   shExitCode>>
    /\ StartFrame

\* a script that stops when the pull fails
CheckModels_StopsOnPullFailure(listed, pulled) ==
    /\ shPc = "models"
    /\ shModels' = IF listed THEN "present" ELSE IF pulled THEN "pulled" ELSE "pullfailed"
    /\ shPc' = IF listed \/ pulled THEN "node" ELSE "exited"
    /\ shExitCode' = IF listed \/ pulled THEN shExitCode ELSE 1
    /\ UNCHANGED <<shOllama, shWaitCount, shReady, shNode, shNodeCode, shCleaned,
                   shSignalled>>
    /\ StartFrame

\* lines 36 to 53: ollama list, and ollama pull when the model is not listed;
\* a failed pull is reported and passed over (the || block of line 43)
CheckModels(listed, pulled) ==
    /\ shPc = "models"
    /\ shModels' = IF listed THEN "present" ELSE IF pulled THEN "pulled" ELSE "pullfailed"
    /\ shPc' = "node"
    /\ UNCHANGED <<shOllama, shWaitCount, shReady, shNode, shNodeCode, shCleaned,
                   shSignalled, shExitCode>>
    /\ StartFrame

\* lines 55 to 58: node server.js &
StartNode ==
    /\ shPc = "node"
    /\ shNode' = "running"
    /\ shPc' = "sleep"
    /\ UNCHANGED <<shOllama, shWaitCount, shReady, shModels, shNodeCode, shCleaned,
                   shSignalled, shExitCode>>
    /\ StartFrame

\* the node process exits by itself
NodeExits(code) ==
    /\ shPc \in {"sleep", "wait"}
    /\ shNode = "running"
    /\ shNode' = "exited"
    /\ shNodeCode' = code
    /\ UNCHANGED <<shPc, shOllama, shWaitCount, shReady, shModels, shCleaned,
                   shSignalled, shExitCode>>
    /\ StartFrame

\* lines 60 to 70: sleep 2, then kill -0 $NODE_PID; exit 1 when it is gone
CheckNodeStarted ==
    /\ shPc = "sleep"
    /\ IF shNode = "running"
       THEN shPc' = "wait" /\ UNCHANGED shExitCode
       ELSE shPc' = "exited" /\ shExitCode' = 1
    /\ UNCHANGED <<shOllama, shWaitCount, shReady, shModels, shNode, shNodeCode,
                   shCleaned, shSignalled>>
    /\ StartFrame

\* cleanup(), lines 9 to 14: both kills, then exit without an argument, which
\* exits the script with the status of the command before it, the second kill
Cleanup(killStatus) ==
    /\ shOllama' = IF shOllama = "running" THEN "killed" ELSE shOllama
    /\ shNode' = IF shNode = "running" THEN "killed" ELSE shNode
    /\ shCleaned' = TRUE
    /\ shPc' = "exited"
    /\ shExitCode' = killStatus

\* lines 74 to 81: wait $NODE_PID returns the node exit code; when it is not
\* 0 the script calls cleanup, which exits, so that line 80 is not reached.
\* The kill of the reaped node process fails with status 1, or succeeds
\* with 0 should the process id be in use again
WaitReturns(killStatus) ==
    /\ shPc = "wait"
    /\ shNode = "exited"
    /\ IF shNodeCode # 0
       THEN Cleanup(killStatus)
       ELSE /\ shPc' = "exited"
            /\ shExitCode' = 0
            /\ UNCHANGED <<shOllama, shNode, shCleaned>>
    /\ UNCHANGED <<shWaitCount, shReady, shModels, shNodeCode, shSignalled>>
    /\ StartFrame

\* SIGTERM or SIGINT once the trap of line 16 is set: cleanup runs between
\* two commands, or at once during the wait of line 74
Signal(killStatus) ==
    /\ shPc \in {"probe", "models", "node", "sleep", "wait"}
    /\ shSignalled' = TRUE
    /\ Cleanup(killStatus)
    /\ UNCHANGED <<shWaitCount, shReady, shModels, shNodeCode>>
    /\ StartFrame

\* the commands of the script up to the start of the backend
StartupStep ==
    \/ StartOllama
    \/ \E up \in BOOLEAN : ProbeOllama(up)
    \/ \E listed, pulled \in BOOLEAN : CheckModels(listed, pulled)
    \/ StartNode

StartupNext ==
    \/ StartupStep
    \/ \E code \in NodeExitCodes : NodeExits(code)
    \/ CheckNodeStarted
    \/ \E killStatus \in {0, 1} : WaitReturns(killStatus)
    \/ \E killStatus \in {0, 1, 2} : Signal(killStatus)

----------------------------------------------------------------------------
(* Specifications *)

\* AIClient.call alone: the search service stays idle
\* the subsystems that take no step in a specification
OthersIdle(smtp) == AdapterIdle /\ SupportIdle /\ smtpEnv = smtp /\ StartIdle

Unconfigured == [host |-> FALSE, user |-> FALSE, pass |-> FALSE]

InitAI ==
    AIInit /\ SearchIdle /\ scApiKey = FALSE /\ FormatIdle /\ OthersIdle(Unconfigured)

SpecAI == InitAI /\ [][AINext]_vars

\* the same, every provider call settling
SpecAILive == InitAI /\ [][AINext]_vars /\ ProviderCallsSettle

\* the same as SpecAI, with getStatus called at any moment
SpecStatus == InitAI /\ [][StatusNext]_vars

\* searchPosts alone: the AI client stays idle
InitSearch ==
    SearchInit /\ AIIdle /\ groqApiKey = FALSE /\ FormatIdle /\ OthersIdle(Unconfigured)

SpecSearch == InitSearch /\ [][SearchNext]_vars

\* searchPosts alone, with the order in which the provider calls complete
SpecOrder == InitSearch /\ [][OrderNext]_vars

\* a formatter alone: the AI client and searchPosts stay idle
InitFormat ==
    /\ FormatInit /\ AIIdle /\ groqApiKey = FALSE /\ SearchIdle /\ scApiKey = FALSE
    /\ OthersIdle(Unconfigured)

SpecFormat == InitFormat /\ [][FormatNext]_vars

\* searchPosts alone, its language and timeFilter arguments varied
SpecFilters == InitSearch /\ [][FiltersNext]_vars

\* an adapter or its extractor alone
InitAdapter ==
    /\ AdapterInit /\ AIIdle /\ groqApiKey = FALSE /\ SearchIdle /\ scApiKey = FALSE
    /\ FormatIdle /\ SupportIdle /\ smtpEnv = Unconfigured /\ StartIdle

SpecAdapter == InitAdapter /\ [][AdapterNext]_vars

\* the support route alone
InitSupport ==
    /\ SupportInit /\ AIIdle /\ groqApiKey = FALSE /\ SearchIdle /\ scApiKey = FALSE
    /\ FormatIdle /\ AdapterIdle /\ StartIdle

SpecSupport == InitSupport /\ [][SupportNext]_vars

\* the start script alone
InitStartup ==
    /\ StartInit /\ AIIdle /\ groqApiKey = FALSE /\ SearchIdle /\ scApiKey = FALSE
    /\ FormatIdle /\ AdapterIdle /\ SupportIdle /\ smtpEnv = Unconfigured

SpecStartup == InitStartup /\ [][StartupNext]_vars

\* the same, every command of lines 3 to 58 returning
SpecStartupLive == InitStartup /\ [][StartupNext]_vars /\ WF_vars(StartupStep)

----------------------------------------------------------------------------
(* Properties of AIClient.call *)

AICalled == aiPc # "idle"

Settled(outcome) == outcome # NoOutcome

Failed(outcome) == Settled(outcome) /\ ~outcome.ok

\* C1: when the primary call was attempted and failed and the backup call
\* failed too, the failure AIClient.call raises has a message that contains
\* the primary's failure message and the backup's failure message.
C1_BothReasonsInMessage ==
    (aiPc = "done" /\ Failed(groqOutcome) /\ Failed(ollamaOutcome))
        => /\ aiResult.kind = "raised"
           /\ Contains(aiResult.message, groqOutcome.message)
           /\ Contains(aiResult.message, ollamaOutcome.message)

\* C2: without the force option, with the primary configured, once
\* GroqClient.call has returned a text, AIClient.call has returned exactly
\* that text and OllamaClient.call is never invoked.
C2_PrimaryTextNoBackup ==
    (AICalled /\ ~aiOptions.forceOllama /\ groqApiKey /\ groqOutcome.ok)
        => /\ aiPc = "done"
           /\ aiResult = Returned(groqOutcome.text)
           /\ ollamaCalls = 0
           /\ ollamaHttp = 0

C2_Witness ==
    /\ ~aiOptions.forceOllama /\ groqApiKey
    /\ groqOutcome = Ok("t1")
    /\ aiResult = Returned("t1")

\* C3: with the primary credential absent (and no force option) AIClient.call
\* issues no primary network call, invokes OllamaClient.call exactly once,
\* raises nothing before the backup has settled, and returns the backup's
\* text when the backup succeeds.
C3_UnconfiguredUsesBackup ==
    (AICalled /\ ~aiOptions.forceOllama /\ ~groqApiKey)
        => /\ groqHttp = 0
           /\ ollamaCalls = 1
           /\ ollamaArgs = << <<aiPrompt, aiOptions>> >>
           /\ (~Settled(ollamaOutcome) => aiResult = NoResult)
           /\ (ollamaOutcome.ok => aiResult = Returned(ollamaOutcome.text))

C3_Witness ==
    /\ ~aiOptions.forceOllama /\ ~groqApiKey
    /\ ollamaCalls = 1
    /\ ollamaOutcome = Ok("t2")
    /\ aiResult = Returned("t2")

\* C4: whatever made GroqClient.call fail, AIClient.call has then invoked
\* OllamaClient.call exactly once, with its own prompt and options, raises
\* nothing while the backup has not settled, and returns the backup's text
\* when the backup succeeds.
C4_PrimaryFailureFallsBack ==
    Failed(groqOutcome)
        => /\ ollamaCalls = 1
           /\ ollamaArgs = << <<aiPrompt, aiOptions>> >>
           /\ (~Settled(ollamaOutcome) => aiResult = NoResult)
           /\ (ollamaOutcome.ok => aiResult = Returned(ollamaOutcome.text))

C4_Witness ==
    /\ groqOutcome = Thrown(<<"Invalid response from Groq API">>)
    /\ aiOptions.temperature = 7
    /\ ollamaCalls = 1
    /\ ollamaOutcome = Ok("t1")
    /\ aiResult = Returned("t1")

\* C5 as stated: whenever AIClient.call has raised, both the primary (its
\* availability check at least) and the backup were tried in that call.
C5_RaisedOnlyAfterBothTried ==
    aiResult.kind = "raised"
        => /\ (groqTried \/ groqCalls > 0)
           /\ ollamaCalls > 0

\* C5 amended: whenever AIClient.call has raised, the backup was called and
\* failed; and unless the force option was set, the primary's availability
\* was checked and, the primary being configured, it was called and failed.
C5_RaisedOnlyAfterBackupFailed ==
    aiResult.kind = "raised"
        => /\ ollamaCalls = 1
           /\ Failed(ollamaOutcome)
           /\ (~aiOptions.forceOllama
                 => /\ groqTried
                    /\ (groqApiKey => groqCalls = 1 /\ Failed(groqOutcome)))

C5_Witness ==
    /\ aiResult.kind = "raised"
    /\ ~aiOptions.forceOllama
    /\ Failed(groqOutcome)
    /\ Failed(ollamaOutcome)

\* C6: with the force option set GroqClient.call is never invoked and the
\* outcome of AIClient.call is the outcome of OllamaClient.call; with the
\* option not set and the primary configured, the backup is invoked only
\* after the primary was called and failed.
C6_ForceIsTheOnlyBypass ==
    /\ (AICalled /\ aiOptions.forceOllama)
         => /\ groqCalls = 0
            /\ groqHttp = 0
            /\ ollamaCalls = 1
            /\ (ollamaOutcome.ok => aiResult = Returned(ollamaOutcome.text))
            /\ (Failed(ollamaOutcome) => aiResult = Raised(ollamaOutcome.message))
    /\ (AICalled /\ ~aiOptions.forceOllama /\ groqApiKey)
         => /\ groqCalls = 1
            /\ (ollamaCalls > 0 => Failed(groqOutcome))

C6_Witness ==
    /\ aiOptions.forceOllama /\ groqApiKey
    /\ Failed(ollamaOutcome)
    /\ aiResult = Raised(ollamaOutcome.message)

\* C7: AIClient.call never returns an empty text as a success: a provider
\* response with an empty or missing generated text counts as that
\* provider's failure.
C7_NoEmptySuccess ==
    aiResult.kind = "returned" => aiResult.text # ""

----------------------------------------------------------------------------
(* Properties of ScrapeCreatorsService.searchPosts *)

\* the number of elements of seq equal to x
Count(seq, x) == Cardinality({k \in DOMAIN seq : seq[k] = x})

\* the same records, each as many times, in any order
SameRecords(s1, s2) ==
    /\ Len(s1) = Len(s2)
    /\ \A k \in DOMAIN s1 : Count(s1, s1[k]) = Count(s2, s1[k])

\* the normalized records of the platforms whose provider call did not fail,
\* from what each provider sent
RECURSIVE ExpectedRecords(_)
ExpectedRecords(i) ==
    IF i > Len(spTasks) THEN <<>>
    ELSE (IF Adapter(spArgs.platforms[i]) \in SupportedAdapters
             /\ ~spTasks[i].received.failed
          THEN TagPlatform(FormatAll(Adapter(spArgs.platforms[i]),
                                     spTasks[i].received.items),
                           spArgs.platforms[i])
          ELSE <<>>)
         \o ExpectedRecords(i + 1)

RECURSIVE ItemsReturned(_)
ItemsReturned(i) ==
    IF i > Len(spTasks) THEN 0
    ELSE Len(spTasks[i].received.items) + ItemsReturned(i + 1)

FailedTasks == {i \in DOMAIN spTasks : spTasks[i].received.failed}

\* C8: with the credential set, whichever provider calls failed, searchPosts
\* returns (does not raise) and the list it returns holds exactly the
\* normalized records of the platforms whose call did not fail.
C8_PartialFailureIsolation ==
    (spPc = "done" /\ scApiKey)
        => /\ spResult.kind = "returned"
           /\ SameRecords(spResult.posts, ExpectedRecords(1))

C8_Witness ==
    /\ spPc = "done"
    /\ Len(spArgs.platforms) >= 2
    /\ Cardinality(FailedTasks) = 1
    /\ \E i \in DOMAIN spTasks : Len(spTasks[i].received.items) = MaxItems
    /\ Len(spResult.posts) = MaxItems

\* C9: with the credential unset searchPosts raises the configuration error
\* and issues no provider HTTP call.
C9_NoCredentialNoCall ==
    (spPc # "idle" /\ ~scApiKey)
        => /\ spPc = "done"
           /\ spResult = RaisedError(<<"ScrapeCreators API key not configured">>)
           /\ spRequests = <<>>
           /\ spTasks = <<>>

C9_Witness ==
    /\ ~scApiKey
    /\ spResult.kind = "raised"
    /\ Len(spArgs.platforms) = 2
    /\ \A i \in 1..2 : Adapter(spArgs.platforms[i]) \in SupportedAdapters

\* C10: the list searchPosts returns is ordered by non-increasing engagement
\* and is no longer than the number of items the providers returned.
C10_SortedAndBounded ==
    spResult.kind = "returned"
        => /\ \A k \in 1..(Len(spResult.posts) - 1) :
                 spResult.posts[k].engagement >= spResult.posts[k + 1].engagement
           /\ Len(spResult.posts) <= ItemsReturned(1)

C10_Witness ==
    /\ spResult.kind = "returned"
    /\ Len(spResult.posts) >= 3
    /\ spResult.posts # GatherResults(spTasks)
    /\ \E k \in DOMAIN spResult.posts :
          spResult.posts[k].platform # spResult.posts[1].platform

\* C23: whenever AIClient.call goes on from the primary to the backup, the
\* primary not being configured or its call having failed, a warning about
\* the primary has been logged by the time OllamaClient.call is invoked.
C23_WarningBeforeBackup ==
    (ollamaCalls > 0 /\ ~aiForced)
        => \E k \in DOMAIN aiLog : aiLog[k].level = "warn"

\* C24: isAvailable of either client issues no network call and changes no
\* state; the primary's is true exactly when its credential is set, the
\* backup's is true, its base endpoint being configured.
C24_IsAvailablePure ==
    [][aiStatus' # aiStatus
         => /\ UNCHANGED <<groqApiKey, aiPc, aiPrompt, aiOptions, aiForced, groqCalls,
                           groqHttp, ollamaCalls, ollamaHttp, ollamaArgs, groqTried,
                           groqOutcome, ollamaOutcome, aiResult, aiLog>>
            /\ aiStatus'.groq = groqApiKey
            /\ aiStatus'.ollama = (OllamaBaseUrl # "")]_vars

\* availability asked while the primary call is in flight, the credential set
C24_Witness ==
    /\ aiStatus = [asked |-> TRUE, groq |-> TRUE, ollama |-> TRUE]
    /\ aiPc = "groq"
    /\ groqHttp = 1
    /\ ollamaHttp = 0

\* C25: provided every provider call settles, an AIClient.call ends, with
\* one outcome that never changes (text returned or failure raised), after
\* at most one GroqClient.call and at most one OllamaClient.call, the backup
\* call not starting before the primary call has settled.
C25_EndsAfterOneCallEach ==
    /\ [](groqCalls <= 1 /\ ollamaCalls <= 1)
    /\ []((groqCalls = 1 /\ ollamaCalls = 1) => groqOutcome # NoOutcome)
    /\ [](aiPc = "done" <=> aiResult.kind \in {"returned", "raised"})
    /\ [][aiResult # NoResult => aiResult' = aiResult]_vars
    /\ (aiPc # "idle") ~> (aiPc = "done")

\* both providers were called, one after the other, and the call has ended
C25_Witness ==
    /\ aiPc = "done"
    /\ groqCalls = 1
    /\ ollamaCalls = 1
    /\ ~groqOutcome.ok
    /\ aiResult.kind = "returned"

\* the place of record i of records once they are ordered by engagement,
\* highest first, records of equal engagement keeping their order
Place(records, i) ==
    1 + Cardinality({j \in DOMAIN records :
                       records[j].engagement > records[i].engagement})
      + Cardinality({j \in 1..(i - 1) :
                       records[j].engagement = records[i].engagement})

ByEngagementKeepingTies(records) ==
    [p \in DOMAIN records |->
        records[CHOOSE i \in DOMAIN records : Place(records, i) = p]]

\* C11: in whatever order the provider calls complete, the list searchPosts
\* returns is the same: the records of the requested platforms, in the order
\* the platforms were requested and each provider's item order within, ordered
\* by engagement with records of equal engagement keeping that order.
C11_OrderIndependentOfCompletion ==
    spResult.kind = "returned"
        => spResult.posts = ByEngagementKeepingTies(ExpectedRecords(1))

\* the call for the second platform completed first, and of two records of
\* equal engagement the one of the first platform is returned first
C11_Witness ==
    /\ spResult.kind = "returned"
    /\ spOrder = <<2, 1>>
    /\ spArgs.platforms[1] # spArgs.platforms[2]
    /\ \E k \in 1..(Len(spResult.posts) - 1) :
          /\ spResult.posts[k].engagement = spResult.posts[k + 1].engagement
          /\ spResult.posts[k].platform = spArgs.platforms[1]
          /\ spResult.posts[k + 1].platform = spArgs.platforms[2]

\* C12: searchPosts raises only when the credential is missing; with the
\* credential set every failed provider call contributes no record and the
\* caller receives a list.
C12_RaisesOnlyWithoutCredential ==
    /\ spResult.kind = "raised" => ~scApiKey
    /\ (spPc = "done" /\ scApiKey) => spResult.kind = "returned"
    /\ \A i \in DOMAIN spTasks :
          spTasks[i].received.failed
              => spTasks[i].state = "settled" /\ spTasks[i].posts = <<>>

\* every provider call failed, and the caller received the empty list
C12_Witness ==
    /\ scApiKey
    /\ Len(spArgs.platforms) = 2
    /\ FailedTasks = {1, 2}
    /\ spResult = ReturnedPosts(<<>>)

\* names for which the switch of searchPlatform has no case
UnrecognizedNames == {"tiktok"}

RequestsOf(i) == {k \in DOMAIN spRequests : spRequests[k].task = i}

\* C13: a platform name that no adapter recognizes contributes no record,
\* causes no HTTP call and raises nothing; the other platforms of the same
\* call contribute what their providers returned.
C13_UnknownPlatformIgnored ==
    (spPc \in {"waiting", "done"} /\ scApiKey)
        => /\ \A i \in DOMAIN spArgs.platforms :
                 spArgs.platforms[i] \in UnrecognizedNames
                     => /\ spTasks[i] = SettledTask(<<>>, spTasks[i].log, FALSE, <<>>)
                        /\ RequestsOf(i) = {}
           /\ spPc = "done"
                 => /\ spResult.kind = "returned"
                    /\ SameRecords(spResult.posts, ExpectedRecords(1))
                    /\ \A k \in DOMAIN spResult.posts :
                          spResult.posts[k].platform \notin UnrecognizedNames

\* an unrecognized name first, then a platform whose provider returned items
C13_Witness ==
    /\ spPc = "done"
    /\ scApiKey
    /\ Len(spArgs.platforms) = 2
    /\ spArgs.platforms[1] \in UnrecognizedNames
    /\ Len(spRequests) = 1
    /\ Len(spTasks[2].received.items) = MaxItems
    /\ Len(spResult.posts) = MaxItems

\* C14: every requested platform that has an adapter (reddit, youtube,
\* threads) gets exactly one HTTP call, to its own endpoint, and no other
\* platform gets any; a failed call is not repeated.
C14_OneCallPerPlatform ==
    (spPc \in {"waiting", "done"} /\ scApiKey)
        => /\ \A i \in DOMAIN spArgs.platforms :
                 IF ToLowerCase(spArgs.platforms[i]) \in {"reddit", "youtube", "threads"}
                 THEN /\ Cardinality(RequestsOf(i)) = 1
                      /\ \A k \in RequestsOf(i) :
                            spRequests[k].endpoint = ToLowerCase(spArgs.platforms[i])
                 ELSE RequestsOf(i) = {}
           /\ \A k \in DOMAIN spRequests : spRequests[k].task \in DOMAIN spArgs.platforms

\* the same platform requested twice, the first call failed: two calls in all
C14_Witness ==
    /\ spPc = "done"
    /\ scApiKey
    /\ Len(spArgs.platforms) = 2
    /\ spArgs.platforms[1] = spArgs.platforms[2]
    /\ spTasks[1].received.failed
    /\ ~spTasks[2].received.failed
    /\ Len(spRequests) = 2

PendingTasks == {i \in DOMAIN spTasks : spTasks[i].state = "pending"}

\* C15: every provider call is issued before any is awaited, searchPosts
\* returns only when every one has settled, and a failed call does not end
\* the wait for the others.
C15_WaitsForEveryCall ==
    /\ \A i \in PendingTasks : RequestsOf(i) # {}
    /\ (spPc = "waiting" /\ spTasks # <<>>)
          => \A i \in DOMAIN spTasks :
                Adapter(spArgs.platforms[i]) \in SupportedAdapters => RequestsOf(i) # {}
    /\ PendingTasks # {} => spPc = "waiting" /\ spResult = NoPosts
    /\ spResult.kind = "returned" => PendingTasks = {}

\* the first call failed, the second delivered afterwards and is in the result
C15_Witness ==
    /\ spResult.kind = "returned"
    /\ spOrder = <<1, 2>>
    /\ spTasks[1].received.failed
    /\ Len(spTasks[2].received.items) = MaxItems
    /\ Len(spResult.posts) = MaxItems

CanonicalFields ==
    {"id", "content", "source", "engagement", "timestamp", "url", "author",
     "platform", "thumbnail"}

\* C16: every record searchPosts returns has a value for each field of the
\* canonical record: id, content, source, engagement, timestamp, url, author,
\* platform and thumbnail.
C16_EveryFieldDefined ==
    spResult.kind = "returned"
        => \A k \in DOMAIN spResult.posts : CanonicalFields \subseteq DOMAIN spResult.posts[k]

\* C26: every record searchPosts returns carries as platform one of the
\* supported provider identifiers (reddit, youtube, threads), whichever
\* spelling of the name was requested.
C26_PlatformIsProviderId ==
    spResult.kind = "returned"
        => \A k \in DOMAIN spResult.posts :
              spResult.posts[k].platform \in {"reddit", "youtube", "threads"}

\* what the requested platforms contribute going by the items received alone
RECURSIVE RecordsOfItems(_)
RecordsOfItems(i) ==
    IF i > Len(spTasks) THEN <<>>
    ELSE TagPlatform(FormatAll(Adapter(spArgs.platforms[i]), spTasks[i].received.items),
                     spArgs.platforms[i])
         \o RecordsOfItems(i + 1)

\* C27: what searchPosts returns is the same whether a provider failed or
\* returned no item: it is determined by the items received, and carries
\* nothing else, no failure kind in particular.
C27_FailureLooksLikeEmpty ==
    spResult.kind = "returned"
        => spResult = ReturnedPosts(ByEngagementKeepingTies(RecordsOfItems(1)))

\* one provider failed, the other returned no item: the same empty list
C27_Witness ==
    /\ spResult = ReturnedPosts(<<>>)
    /\ Len(spRequests) = 2
    /\ spTasks[1].received.failed
    /\ ~spTasks[2].received.failed

SkippedNames == {"x", "twitter", "linkedin"}

\* C28: a request for x, twitter or linkedin causes no HTTP call and
\* contributes no record; the other platforms of the same call are called
\* and contribute what their providers returned.
C28_SkippedPlatformIgnored ==
    (spPc \in {"waiting", "done"} /\ scApiKey)
        => /\ \A i \in DOMAIN spArgs.platforms :
                 IF spArgs.platforms[i] \in SkippedNames
                 THEN /\ spTasks[i] = SettledTask(<<>>, spTasks[i].log, FALSE, <<>>)
                      /\ RequestsOf(i) = {}
                 ELSE ToLowerCase(spArgs.platforms[i]) \in {"reddit", "youtube", "threads"}
                         => Cardinality(RequestsOf(i)) = 1
           /\ spPc = "done"
                 => /\ spResult.kind = "returned"
                    /\ SameRecords(spResult.posts, ExpectedRecords(1))
                    /\ \A k \in DOMAIN spResult.posts :
                          spResult.posts[k].platform \notin SkippedNames

\* twitter next to a platform whose provider returned items
C28_Witness ==
    /\ spPc = "done"
    /\ scApiKey
    /\ Len(spArgs.platforms) = 2
    /\ spArgs.platforms[2] = "twitter"
    /\ Len(spRequests) = 1
    /\ Len(spTasks[1].received.items) = MaxItems
    /\ Len(spResult.posts) = MaxItems

----------------------------------------------------------------------------
(* Properties of the adapters *)

Least(S) == CHOOSE i \in S : \A j \in S : i <= j

\* where extractPostsFromResponse looks for the list, in its order
ExtractPaths ==
    <<<<>>, <<"data">>, <<"posts">>, <<"results">>, <<"videos">>, <<"items">>,
      <<"data", "posts">>, <<"data", "results">>, <<"data", "videos">>,
      <<"data", "items">>>>

At(j, path) ==
    IF path = <<>> THEN j
    ELSE IF Len(path) = 1 THEN Get(j, path[1])
    ELSE Get(Get(j, path[1]), path[2])

Matching(data) == {p \in DOMAIN ExtractPaths : IsArray(At(data, ExtractPaths[p]))}

Extracted == adPc = "done" /\ adInput.fn = "extract"

\* C21: extractPostsFromResponse throws for no payload; it returns the list
\* at the first place, in its order, where the payload holds a list (the
\* payload itself, data, posts, results, videos, items, then these four
\* under data), be that list empty, and the empty list when there is none.
C21_FirstMatchingList ==
    Extracted =>
        /\ ~adOutput.threw
        /\ adOutput.posts =
              IF Matching(adInput.data) = {} THEN <<>>
              ELSE At(adInput.data, ExtractPaths[Least(Matching(adInput.data))]).v

\* data is an empty list and posts a list of one item: the empty list wins
C21_Witness ==
    /\ Extracted
    /\ adInput.data = JObject([data |-> JList(<<>>),
                                posts |-> JList(<<Item("posts", FALSE)>>)])
    /\ adOutput = [threw |-> FALSE, posts |-> <<>>, log |-> <<>>]

Searched == adPc = "done" /\ adInput.fn = "search"

MalformedPayload(adapter, data) ==
    \E shape \in MalformedShapes, n \in 0..MaxItems :
        data = Payload(shape, FirstItems(adapter, n))

----------------------------------------------------------------------------
(* Properties of the support route *)

Complete(body) ==
    body.name # "" /\ body.email # "" /\ body.type # "" /\ body.message # ""

Configured(env) == env.host /\ env.user /\ env.pass

\* C30: POST /contact calls sendMail only when name, email, type and message
\* are all present and SMTP host, user and password all configured; a
\* missing field gives 400, whatever the SMTP configuration, an unconfigured
\* SMTP 500, no mail being sent in either case, and a sendMail failure 500.
C30_MailOnlyWhenCompleteAndConfigured ==
    /\ Len(supMails) <= 1
    /\ supMails # <<>> => Complete(supBody) /\ Configured(smtpEnv)
    /\ supPc = "done"
          => /\ supResponse.status \in {200, 400, 500}
             /\ ~Complete(supBody) => supResponse.status = 400 /\ supMails = <<>>
             /\ (Complete(supBody) /\ ~Configured(smtpEnv))
                   => supResponse.status = 500 /\ supMails = <<>>
             /\ supMails = <<"rejected">> => supResponse.status = 500
             /\ supMails = <<"sent">> => supResponse.status = 200

\* sendMail was called and failed
C30_Witness ==
    /\ supPc = "done"
    /\ supMails = <<"rejected">>
    /\ supResponse.status = 500
    /\ Configured(smtpEnv)

----------------------------------------------------------------------------
(* Properties of the start script *)

\* what has happened by the time the backend is started
StartedInOrder ==
    shNode # "none"
        => /\ shOllama # "none"
           /\ shReady \/ shWaitCount = MAX_WAIT
           /\ shModels # "unchecked"

\* C31 as stated: the backend is started only after Ollama was started, the
\* readiness wait ended and the model step ran, and it is started in every
\* run: no run of the script ends without it.
C31_BackendStartedInEveryRun ==
    /\ StartedInOrder
    /\ shPc = "exited" => shNode # "none"

\* C31 amended: the backend is started only after Ollama was started, the
\* readiness wait ended (readiness observed, or 60 probes exhausted) and the
\* model step ran; it is started in every run that no SIGTERM or SIGINT
\* stops before, also when Ollama never became ready or the pull failed.
C31_BackendStartedUnlessSignalled ==
    /\ []StartedInOrder
    /\ []((shPc = "exited" /\ ~shSignalled) => shNode # "none")
    /\ <>(shNode # "none" \/ shSignalled)

\* the backend runs although all 60 probes failed and the pull failed
C31_Witness ==
    /\ shNode = "running"
    /\ ~shReady
    /\ shWaitCount = MAX_WAIT
    /\ shModels = "pullfailed"

\* C32: when the node process has exited with a code other than 0, the script
\* cleans up and exits with that same code.
C32_ExitsWithNodeCode ==
    (shPc = "exited" /\ shNode = "exited" /\ shNodeCode # 0 /\ ~shSignalled)
        => shCleaned /\ shExitCode = shNodeCode

----------------------------------------------------------------------------
(* Properties of the formatters *)

Formatted(adapter) == fmtPc = "done" /\ fmtInput.adapter = adapter

\* the value of the first of fields that post carries, 0 when it carries none
FirstPresent(post, fields) ==
    LET carried == {i \in DOMAIN fields : fields[i] \in DOMAIN post}
    IN IF carried = {} THEN 0 ELSE post[fields[Least(carried)]]

\* the value of the first of fields that post carries with a value other than
\* 0, 0 when there is none
FirstNonZero(post, fields) ==
    LET usable == {i \in DOMAIN fields :
                     fields[i] \in DOMAIN post /\ post[fields[i]] # 0}
    IN IF usable = {} THEN 0 ELSE post[fields[Least(usable)]]

\* e is x rounded to the nearest integer, halves up, for x = views/100 + rest
IsRounded(e, views, rest) ==
    /\ 100 * e - 50 <= views + 100 * rest
    /\ views + 100 * rest < 100 * e + 50

\* C17: the engagement of every record a formatter returns is a non-negative
\* integer, whatever integers the raw metrics are, negative Reddit scores
\* included
C17_EngagementNonNegative ==
    fmtPc = "done" => fmtOutput.engagement \in Nat

\* C18 as stated: Reddit engagement is (score, or ups when score is absent)
\* plus (num_comments, or comments when num_comments is absent), an absent
\* metric counting 0
C18_RedditAbsentAliases ==
    Formatted("reddit") =>
        fmtOutput.engagement =
            FirstPresent(fmtInput.post, <<"score", "ups">>)
            + FirstPresent(fmtInput.post, <<"num_comments", "comments">>)

\* C18 amended: Reddit engagement is (score, or ups when score is absent or 0)
\* plus (num_comments, or comments when num_comments is absent or 0), a
\* metric with no such alias counting 0; score 10 with num_comments 5 gives 15
C18_RedditEngagement ==
    Formatted("reddit") =>
        /\ fmtOutput.engagement =
               FirstNonZero(fmtInput.post, <<"score", "ups">>)
               + FirstNonZero(fmtInput.post, <<"num_comments", "comments">>)
        /\ fmtInput.post = [score |-> 10, num_comments |-> 5]
              => fmtOutput.engagement = 15

\* a post whose score is 0 and whose num_comments is absent: both second
\* aliases are used
C18_Witness ==
    /\ Formatted("reddit")
    /\ fmtInput.post = [score |-> 0, ups |-> 5, comments |-> 10]
    /\ fmtOutput.engagement = 15

\* C19 as stated: YouTube engagement is round(0.01 * views + likes + comments),
\* each metric read from the first alias the item carries and counting 0 when
\* it carries none
C19_YouTubePresentAliases ==
    Formatted("youtube") =>
        IsRounded(fmtOutput.engagement,
                  FirstPresent(fmtInput.post, <<"viewCount", "views", "view_count">>),
                  FirstPresent(fmtInput.post, <<"likeCount", "likes", "like_count">>)
                  + FirstPresent(fmtInput.post,
                                 <<"commentCount", "comments", "comment_count">>))

\* C19 amended: YouTube engagement is round(0.01 * views + likes + comments),
\* each metric read from the first alias the item carries with a value other
\* than 0 and counting 0 when there is none; views 10000, likes 50 and
\* comments 10 give 160
C19_YouTubeEngagement ==
    Formatted("youtube") =>
        /\ IsRounded(fmtOutput.engagement,
                     FirstNonZero(fmtInput.post, <<"viewCount", "views", "view_count">>),
                     FirstNonZero(fmtInput.post, <<"likeCount", "likes", "like_count">>)
                     + FirstNonZero(fmtInput.post,
                                    <<"commentCount", "comments", "comment_count">>))
        /\ fmtInput.post = [views |-> 10000, likes |-> 50, comments |-> 10]
              => fmtOutput.engagement = 160

\* 250 views are 2.5 points and round up to 3; the zero likeCount is passed
\* over for likes
C19_Witness ==
    /\ Formatted("youtube")
    /\ fmtInput.post = [viewCount |-> 250, likeCount |-> 0, likes |-> 50,
                         comment_count |-> 3]
    /\ fmtOutput.engagement = 56

\* C20 as stated: Threads engagement is likes plus (replies, or comments when
\* replies is absent) plus (reposts, or shares when reposts is absent), an
\* absent metric counting 0
C20_ThreadsAbsentAliases ==
    Formatted("threads") =>
        fmtOutput.engagement =
            FirstPresent(fmtInput.post, <<"likes">>)
            + FirstPresent(fmtInput.post, <<"replies", "comments">>)
            + FirstPresent(fmtInput.post, <<"reposts", "shares">>)

\* C20 amended: Threads engagement is (likes, or like_count) plus (replies, or
\* comments, or reply_count) plus (reposts, or repost_count, or shares), each
\* read from the first alias the post carries with a value other than 0 and
\* counting 0 when there is none
C20_ThreadsEngagement ==
    Formatted("threads") =>
        /\ fmtOutput.engagement =
               FirstNonZero(fmtInput.post, <<"likes", "like_count">>)
               + FirstNonZero(fmtInput.post, <<"replies", "comments", "reply_count">>)
               + FirstNonZero(fmtInput.post, <<"reposts", "repost_count", "shares">>)
        /\ fmtInput.post = [likes |-> 10, replies |-> 3, reposts |-> 2]
              => fmtOutput.engagement = 15

\* a post that carries only the aliases the formula above adds
C20_Witness ==
    /\ Formatted("threads")
    /\ fmtInput.post = [like_count |-> 1, reply_count |-> 12, repost_count |-> 4]
    /\ fmtOutput.engagement = 17

====
